---- MODULE Spec2Model ----
(***************************************************************************)
(* Model of the S3 manager library (src/s3_manager.go, src/domain.go).     *)
(*                                                                         *)
(* Go strings are sequences of one-character strings, so that formatting   *)
(* (fmt.Sprintf), concatenation and prefix tests are computed character by *)
(* character.  The object-storage client is the bucket: a set of keys,     *)
(* listed in key order, at most MaxKeys keys per ListObjectsV2 response.   *)
(* GetFiles, PutFile and DeleteFiles wait for the service partway, so each *)
(* is several steps, and other calls on the facade run between them.       *)
(***************************************************************************)
EXTENDS Integers, Sequences, FiniteSets, TLC

VARIABLES
    cfgs,        \* the Config objects of the callers, by address (NewS3Manager takes *Config)
    origRoot,    \* RootCatalog of each Config as its caller wrote it, before any construction
    managers,    \* the values NewS3Manager returned so far: a facade, or Nil for (nil, err)
    bucket,      \* keys of the objects stored in the bucket
    last,        \* the step just taken: the call, its client requests and responses, its results
    pc,          \* SpecRace: where each concurrent caller of a facade is in its call
    inflight     \* the GetFiles, PutFile and DeleteFiles calls that have not returned yet

vars == <<cfgs, origRoot, managers, bucket, last, pc, inflight>>

----------------------------------------------------------------------------
(* Bounds *)

MaxManagers == 2    \* NewS3Manager calls
MaxObjects == 2     \* objects the bucket holds
MaxKeys == 1        \* keys one ListObjectsV2 response carries (1000 at the service)
MaxThreads == 2     \* concurrent callers of one facade
MaxInFlight == 2    \* GetFiles, PutFile and DeleteFiles calls under way at once

----------------------------------------------------------------------------
(* Strings *)

Nil == "nil"
Empty == << >>

TestSegment == <<"t","e","s","t","/">>
RootSvc == <<"/","s","v","c","/">>
RootPct == <<"/","s","v","c","%","/">>
PatternProduct == <<"p","r","o","d","u","c","t","s","/","%","d","/">>
PatternIdentity == <<"%","s">>
CustomDir == <<"c","/">>
NameCert == <<"c","e","r","t",".","p","d","f">>
NameA == <<"a">>
EndpointExample == <<"h","t","t","p","s",":","/","/","s","3",".","e","x","a","m","p","l","e",".","c","o","m">>
CDNExample == <<"h","t","t","p","s",":","/","/","c","d","n",".","e","x","a","m","p","l","e",".","c","o","m">>
BucketName == <<"m","y","b","u","c","k","e","t">>
Slash == <<"/">>

\* The characters of the model in byte order: keys are listed in this order.
Ascii == <<" ","!","%","(",")","-",".","/","0","1","2","3","4","5","6","7","8","9",":","=",
           "A","E","I","M","N","O","R","S","T","V","X",
           "a","b","c","d","e","f","h","i","k","l","m","n","o","p","r","s","t","u","v","x","y">>

OrdTable == [c \in {Ascii[i] : i \in 1..Len(Ascii)} |->
                CHOOSE i \in 1..Len(Ascii) : Ascii[i] = c]
Ord(c) == OrdTable[c]

StartsWith(s, p) == Len(p) <= Len(s) /\ SubSeq(s, 1, Len(p)) = p

RECURSIVE LexLess(_, _)
LexLess(a, b) ==
    IF a = << >> THEN b # << >>
    ELSE IF b = << >> THEN FALSE
    ELSE IF Head(a) = Head(b) THEN LexLess(Tail(a), Tail(b))
    ELSE Ord(Head(a)) < Ord(Head(b))

RECURSIVE SortKeys(_)
SortKeys(S) ==
    IF S = {} THEN << >>
    ELSE LET m == CHOOSE k \in S : \A o \in S \ {k} : LexLess(k, o)
         IN <<m>> \o SortKeys(S \ {m})

FirstN(s, n) == IF Len(s) <= n THEN s ELSE SubSeq(s, 1, n)
SeqToSet(s) == {s[i] : i \in 1..Len(s)}

----------------------------------------------------------------------------
(* fmt.Sprintf(format, a) with one int64 operand, as GetCatalogPattern      *)
(* calls it.  Formats are over letters, "/" and "%": no flag, width,        *)
(* precision or index characters, and of the integer verbs only d and v.    *)

DigitChars == <<"0","1","2","3","4","5","6","7","8","9">>

RECURSIVE DecNat(_)
DecNat(n) ==
    IF n < 10 THEN <<DigitChars[n + 1]>>
    ELSE DecNat(n \div 10) \o <<DigitChars[(n % 10) + 1]>>

Dec(n) == IF n < 0 THEN <<"-">> \o DecNat(-n) ELSE DecNat(n)

Int64Name == <<"i","n","t","6","4">>

\* %!verb(int64=n): the operand does not take this verb
BadVerb(verb, n) == <<"%","!",verb,"(">> \o Int64Name \o <<"=">> \o Dec(n) \o <<")">>
\* %!verb(MISSING): no operand is left for this verb
MissingArg(verb) == <<"%","!",verb,"(","M","I","S","S","I","N","G",")">>
\* %!(NOVERB): the format ends in a lone %
NoVerb == <<"%","!","(","N","O","V","E","R","B",")">>
\* %!(EXTRA int64=n): the operand was never consumed
ExtraArg(n) == <<"%","!","(","E","X","T","R","A"," ">> \o Int64Name \o <<"=">> \o Dec(n) \o <<")">>

PrintArg(verb, n) ==
    IF verb \in {"d", "v"} THEN Dec(n)
    ELSE IF verb = "T" THEN Int64Name
    ELSE BadVerb(verb, n)

RECURSIVE DoPrintf(_, _, _, _)
DoPrintf(format, i, argNum, n) ==
    IF i > Len(format) THEN (IF argNum < 1 THEN ExtraArg(n) ELSE << >>)
    ELSE IF format[i] # "%" THEN <<format[i]>> \o DoPrintf(format, i + 1, argNum, n)
    ELSE IF i = Len(format) THEN NoVerb \o (IF argNum < 1 THEN ExtraArg(n) ELSE << >>)
    ELSE LET verb == format[i + 1] IN
         IF verb = "%" THEN <<"%">> \o DoPrintf(format, i + 2, argNum, n)
         ELSE IF argNum >= 1 THEN MissingArg(verb) \o DoPrintf(format, i + 2, argNum, n)
         ELSE PrintArg(verb, n) \o DoPrintf(format, i + 2, argNum + 1, n)

Sprintf(format, n) == DoPrintf(format, 1, 0, n)

----------------------------------------------------------------------------
(* Input sets *)

PathCustomCatalog == "custom_catalog"
CatalogProduct == "product"
CatalogNone == ""

Roots == {RootSvc, RootPct}
CDNs == {Empty, CDNExample}
CatalogTypes == {PathCustomCatalog, CatalogProduct, CatalogNone}
AddTypes == {CatalogProduct}
NumericPatterns == {PatternProduct}
EntityIDs == {42, -7}
CustomPaths == {CustomDir}
FileNames == {Empty, NameA, NameCert}
StoreNames == {Empty, NameA}
ExpireTimes == {0, 5}
DefaultExpires == {15}
Stream == "stream"

CfgIds == {1}

Configs ==
    [Endpoint : {EndpointExample}, Name : {BucketName}, RootCatalog : Roots,
     CDN : CDNs, PresignedURLExpireTime : DefaultExpires]

\* StoragePath values passed to GetCatalogPattern itself
StoragePaths ==
    [RootCatalog : Roots, CatalogType : CatalogTypes, EntityID : EntityIDs,
     CustomPath : CustomPaths]

\* StoragePath values passed to GetObjectURL, which sets RootCatalog itself
UrlPaths ==
    [RootCatalog : {CustomDir}, CatalogType : CatalogTypes, EntityID : EntityIDs,
     CustomPath : CustomPaths]

\* StoragePath values passed to PutFile, DeleteFiles and GetUploadPresignedURL
StorePaths ==
    [RootCatalog : {CustomDir}, CatalogType : {CatalogProduct, CatalogNone},
     EntityID : {42}, CustomPath : CustomPaths]

ListPrefixes == {Empty, RootSvc}

\* *BucketFile: nil, or a BucketFile with a nil or an open stream
NilFile == [nil |-> TRUE, File |-> Nil, Name |-> Empty]
BucketFiles ==
    {NilFile} \cup [nil : {FALSE}, File : {Nil}, Name : {NameA}]
              \cup [nil : {FALSE}, File : {Stream}, Name : StoreNames]

----------------------------------------------------------------------------
(* The library's functions *)

NoError == "nil"

\* s3_manager.go:189-194
AddCatalog(storagePaths, catalogType, pathPattern) ==
    [t \in (DOMAIN storagePaths) \cup {catalogType} |->
        IF t = catalogType THEN pathPattern ELSE storagePaths[t]]

\* s3_manager.go:179-186
GetCatalogPattern(storagePaths, storagePath) ==
    IF storagePath.CatalogType \notin DOMAIN storagePaths THEN Empty
    ELSE Sprintf(storagePath.RootCatalog \o storagePaths[storagePath.CatalogType],
                 storagePath.EntityID)

\* GetObjectURL without its CDN branch
GetObjectURLNoCDN(cfg, storagePaths, storagePath, fileName) ==
    IF fileName = Empty
    THEN [url |-> Empty, err |-> "GetObjectURL: file name is empty"]
    ELSE LET sp == [storagePath EXCEPT !.RootCatalog = cfg.RootCatalog]
             fullPath == GetCatalogPattern(storagePaths, sp) \o fileName
         IN [url |-> cfg.Endpoint \o Slash \o cfg.Name \o Slash \o fullPath,
             err |-> NoError]

\* s3_manager.go:197-213
GetObjectURL(cfg, storagePaths, storagePath, fileName) ==
    IF fileName = Empty
    THEN [url |-> Empty, err |-> "GetObjectURL: file name is empty"]
    ELSE LET sp == [storagePath EXCEPT !.RootCatalog = cfg.RootCatalog]
             fullPath == GetCatalogPattern(storagePaths, sp) \o fileName
         IN [url |-> IF cfg.CDN # Empty
                     THEN cfg.CDN \o Slash \o fullPath
                     ELSE cfg.Endpoint \o Slash \o cfg.Name \o Slash \o fullPath,
             err |-> NoError]

\* the nil S3Manager that NewS3Manager returns with an error
NilManager == [nil |-> TRUE, cfg |-> 0, storagePaths |-> << >>, test |-> FALSE]

\* s3_manager.go:26-52: the Config is changed through the pointer before
\* LoadDefaultConfig runs, so also when construction fails.
NewS3Manager(cfg, cfgId, isTestServer, loadFails) ==
    LET cfg1 == IF isTestServer
                THEN [cfg EXCEPT !.RootCatalog = cfg.RootCatalog \o TestSegment]
                ELSE cfg
    IN [cfg |-> cfg1,
        manager |-> IF loadFails THEN [NilManager EXCEPT !.test = isTestServer]
                    ELSE [nil |-> FALSE, cfg |-> cfgId,
                          storagePaths |-> AddCatalog(<< >>, PathCustomCatalog, PatternIdentity),
                          test |-> isTestServer],
        err |-> IF loadFails THEN "NewS3Manager/LoadDefaultConfig" ELSE NoError]

----------------------------------------------------------------------------
(* The storage client: the bucket behind s3.Client *)

\* a request handed to the client
Call(api, key, keys, expires) ==
    [api |-> api, key |-> key, keys |-> keys, expires |-> expires]

\* the client's answer to a request: its error is nil (ok) or not, and the keys it
\* carries (a listing's Contents, the keys a DeleteObjects output reports as not deleted)
Resp(api, ok, keys) == [api |-> api, ok |-> ok, keys |-> keys]
NoResp == Resp("none", TRUE, << >>)

\* One ListObjectsV2 response: the keys under the prefix in key order, cut at
\* MaxKeys (the rest is behind a continuation token).
ListObjectsV2(objs, prefix) ==
    FirstN(SortKeys({k \in objs : StartsWith(k, prefix)}), MaxKeys)

\* The URL of a presigned PutObject request: the client's text for (key, expires).
PresignPutObject(key, expires) ==
    key \o <<"?","X","-","A","m","z","-","E","x","p","i","r","e","s","=">> \o Dec(expires)

\* s3_manager.go:85-86, 110-111, 158-159: the root comes from the Config, whatever
\* the caller put in the StoragePath
FullPath(cfg, storagePaths, storagePath, fileName) ==
    GetCatalogPattern(storagePaths, [storagePath EXCEPT !.RootCatalog = cfg.RootCatalog])
        \o fileName

\* s3_manager.go:66-76: the URLs of the listed keys (the service returns no object
\* without a key, so the obj.Key == nil branch skips nothing)
FileURLs(cfg, contents) ==
    [i \in 1..Len(contents) |-> cfg.Endpoint \o Slash \o cfg.Name \o Slash \o contents[i]]

\* PutFile's guard without the empty Name
InvalidDataNoName(data) == data.nil \/ data.File = Nil

\* s3_manager.go:81
InvalidData(data) == data.nil \/ data.File = Nil \/ data.Name = Empty

\* DeleteFiles' test of the listing, never true
NothingListedNever(contents) == Len(contents) < 0

\* s3_manager.go:124
NothingListed(contents) == Len(contents) = 0

\* GetUploadPresignedURL without the fallback to the configured expiry
GetUploadPresignedURLNoDefault(cfg, storagePaths, storagePath, fileName, expireTime, presignFails) ==
    IF fileName = Empty
    THEN [url |-> Empty, err |-> "GetUploadPresignedURL: file name is empty",
          calls |-> << >>, resp |-> NoResp]
    ELSE LET fullPath == FullPath(cfg, storagePaths, storagePath, fileName)
             call == Call("PresignPutObject", fullPath, << >>, expireTime)
             resp == Resp("PresignPutObject", ~presignFails, << >>)
         IN IF presignFails
            THEN [url |-> Empty, err |-> "GetUploadPresignedURL/PresignPutObject",
                  calls |-> <<call>>, resp |-> resp]
            ELSE [url |-> PresignPutObject(fullPath, expireTime), err |-> NoError,
                  calls |-> <<call>>, resp |-> resp]

\* s3_manager.go:152-176 (signing is local: the call does not wait for the service)
GetUploadPresignedURL(cfg, storagePaths, storagePath, fileName, expireTime, presignFails) ==
    IF fileName = Empty
    THEN [url |-> Empty, err |-> "GetUploadPresignedURL: file name is empty",
          calls |-> << >>, resp |-> NoResp]
    ELSE LET fullPath == FullPath(cfg, storagePaths, storagePath, fileName)
             expires == IF expireTime = 0 THEN cfg.PresignedURLExpireTime ELSE expireTime
             call == Call("PresignPutObject", fullPath, << >>, expires)
             resp == Resp("PresignPutObject", ~presignFails, << >>)
         IN IF presignFails
            THEN [url |-> Empty, err |-> "GetUploadPresignedURL/PresignPutObject",
                  calls |-> <<call>>, resp |-> resp]
            ELSE [url |-> PresignPutObject(fullPath, expires), err |-> NoError,
                  calls |-> <<call>>, resp |-> resp]

----------------------------------------------------------------------------
(* State *)

NoPath == [RootCatalog |-> Empty, CatalogType |-> CatalogNone, EntityID |-> 0,
           CustomPath |-> Empty]
NoCall == [op |-> "none", m |-> 0, sp |-> NoPath, fileName |-> Empty, data |-> NilFile,
           expireTime |-> 0, returned |-> TRUE, err |-> NoError, ret |-> Empty,
           urls |-> << >>, calls |-> << >>, resp |-> NoResp, fullPath |-> Empty,
           disturbed |-> FALSE, at |-> "call"]

Built == {i \in DOMAIN managers : ~managers[i].nil}
CfgOf(i) == cfgs[managers[i].cfg]
Registry(i) == managers[i].storagePaths

\* The callers hold their Config values; nothing is constructed yet.
Init ==
    /\ cfgs \in [CfgIds -> Configs]
    /\ origRoot = [c \in CfgIds |-> cfgs[c].RootCatalog]
    /\ managers = << >>
    /\ bucket = {}
    /\ last = NoCall
    /\ pc = << >>
    /\ inflight = {}

\* One facade, as NewS3Manager built it from a caller's Config.
OneFacade ==
    \E c \in CfgIds, cfg \in Configs, isTestServer \in BOOLEAN :
        LET r == NewS3Manager(cfg, c, isTestServer, FALSE)
        IN /\ cfgs = [x \in CfgIds |-> r.cfg]
           /\ origRoot = [x \in CfgIds |-> cfg.RootCatalog]
           /\ managers = <<r.manager>>
           /\ bucket = {}
           /\ last = NoCall

InitBuilt == OneFacade /\ pc = << >> /\ inflight = {}

\* One facade on a bucket served from its endpoint, under the service's root catalog.
InitStore ==
    /\ OneFacade
    /\ \A c \in CfgIds : cfgs[c].CDN = Empty /\ origRoot[c] = RootSvc
    /\ pc = << >>
    /\ inflight = {}

NewS3ManagerCall ==
    \E c \in CfgIds, isTestServer \in BOOLEAN, loadFails \in BOOLEAN :
        /\ Len(managers) < MaxManagers
        /\ LET r == NewS3Manager(cfgs[c], c, isTestServer, loadFails)
           IN /\ cfgs' = [cfgs EXCEPT ![c] = r.cfg]
              /\ managers' = Append(managers, r.manager)
              /\ last' = [NoCall EXCEPT !.op = "NewS3Manager", !.m = Len(managers) + 1,
                                        !.err = r.err]
        /\ UNCHANGED <<origRoot, bucket, pc, inflight>>

AddCatalogCall ==
    \E m \in Built, t \in AddTypes, p \in NumericPatterns :
        /\ managers' = [managers EXCEPT ![m].storagePaths = AddCatalog(@, t, p)]
        /\ last' = [NoCall EXCEPT !.op = "AddCatalog", !.m = m]
        /\ UNCHANGED <<cfgs, origRoot, bucket, pc, inflight>>

GetCatalogPatternCall ==
    \E m \in Built, sp \in StoragePaths :
        /\ last' = [NoCall EXCEPT !.op = "GetCatalogPattern", !.m = m, !.sp = sp,
                                  !.ret = GetCatalogPattern(Registry(m), sp)]
        /\ UNCHANGED <<cfgs, origRoot, managers, bucket, pc, inflight>>

GetObjectURLCall ==
    \E m \in Built, sp \in UrlPaths, fileName \in FileNames :
        /\ LET r == GetObjectURL(CfgOf(m), Registry(m), sp, fileName)
           IN last' = [NoCall EXCEPT !.op = "GetObjectURL", !.m = m, !.sp = sp,
                                     !.fileName = fileName, !.ret = r.url, !.err = r.err]
        /\ UNCHANGED <<cfgs, origRoot, managers, bucket, pc, inflight>>

GetUploadPresignedURLCall ==
    \E m \in Built, sp \in StorePaths, fileName \in FileNames,
       expireTime \in ExpireTimes, presignFails \in BOOLEAN :
        /\ LET r == GetUploadPresignedURL(CfgOf(m), Registry(m), sp, fileName,
                                          expireTime, presignFails)
           IN last' = [NoCall EXCEPT !.op = "GetUploadPresignedURL", !.m = m, !.sp = sp,
                                     !.fileName = fileName, !.expireTime = expireTime,
                                     !.ret = r.url, !.err = r.err, !.calls = r.calls,
                                     !.resp = r.resp]
        /\ UNCHANGED <<cfgs, origRoot, managers, bucket, pc, inflight>>

\* A call that waits for the service: the locals it holds while it waits.
\* disturbed: another call has written the bucket since this DeleteFiles began.
Waiting(op, at, m, sp, fileName, fullPath, keys) ==
    [op |-> op, at |-> at, m |-> m, sp |-> sp, fileName |-> fileName,
     fullPath |-> fullPath, keys |-> keys, disturbed |-> FALSE]

Step(c) == [NoCall EXCEPT !.op = c.op, !.m = c.m, !.sp = c.sp, !.fileName = c.fileName,
                          !.fullPath = c.fullPath, !.disturbed = c.disturbed,
                          !.returned = FALSE, !.at = c.at]

Disturbed(calls) ==
    {[c EXCEPT !.disturbed = @ \/ c.op = "DeleteFiles"] : c \in calls}

\* s3_manager.go:55-61: ListObjectsV2 is sent for the prefix
GetFilesBegin ==
    \E m \in Built, prefix \in ListPrefixes :
        LET c == Waiting("GetFiles", "ListObjectsV2", m, NoPath, prefix, prefix, << >>)
        IN /\ Cardinality(inflight) < MaxInFlight
           /\ c \notin inflight
           /\ inflight' = inflight \cup {c}
           /\ last' = [Step(c) EXCEPT !.at = "call",
                           !.calls = <<Call("ListObjectsV2", prefix, << >>, 0)>>]
           /\ UNCHANGED <<cfgs, origRoot, managers, bucket, pc>>

\* s3_manager.go:61-64: the service answers with the listing of the bucket as it is
\* then, or ListObjectsV2 fails
GetFilesListed ==
    \E c \in inflight, listFails \in BOOLEAN :
        /\ c.op = "GetFiles" /\ c.at = "ListObjectsV2"
        /\ LET contents == IF listFails THEN << >> ELSE ListObjectsV2(bucket, c.fullPath)
               resp == Resp("ListObjectsV2", ~listFails, contents)
           IN IF listFails
              THEN /\ inflight' = inflight \ {c}
                   /\ last' = [Step(c) EXCEPT !.returned = TRUE, !.resp = resp,
                                              !.err = "GetFiles/ListObjectsV2"]
              ELSE /\ inflight' = (inflight \ {c})
                                     \cup {[c EXCEPT !.at = "fileURLs", !.keys = contents]}
                   /\ last' = [Step(c) EXCEPT !.resp = resp]
        /\ UNCHANGED <<cfgs, origRoot, managers, bucket, pc>>

\* s3_manager.go:66-76: the URLs of the keys the caller holds, whatever the bucket
\* holds by now
GetFilesEnd ==
    \E c \in inflight :
        /\ c.op = "GetFiles" /\ c.at = "fileURLs"
        /\ inflight' = inflight \ {c}
        /\ last' = [Step(c) EXCEPT !.returned = TRUE, !.urls = FileURLs(CfgOf(c.m), c.keys)]
        /\ UNCHANGED <<cfgs, origRoot, managers, bucket, pc>>

\* s3_manager.go:80-95: the guard, the key, and PutObject is sent
PutFileBegin ==
    \E m \in Built, sp \in StorePaths, data \in BucketFiles :
        /\ IF InvalidData(data)
           THEN /\ last' = [NoCall EXCEPT !.op = "PutFile", !.m = m, !.sp = sp,
                                          !.data = data,
                                          !.err = "PutFile: invalid file data"]
                /\ UNCHANGED inflight
           ELSE LET store == [sp EXCEPT !.RootCatalog = CfgOf(m).RootCatalog]
                    fullPath == FullPath(CfgOf(m), Registry(m), sp, data.Name)
                    c == Waiting("PutFile", "PutObject", m, store, data.Name, fullPath, << >>)
                IN /\ Cardinality(inflight) < MaxInFlight
                   /\ c \notin inflight
                   /\ inflight' = inflight \cup {c}
                   /\ last' = [Step(c) EXCEPT !.at = "call", !.sp = sp, !.data = data,
                                   !.calls = <<Call("PutObject", fullPath, << >>, 0)>>]
        /\ UNCHANGED <<cfgs, origRoot, managers, bucket, pc>>

\* s3_manager.go:95-98: the service stores the object, or PutObject fails
PutObjectDone ==
    \E c \in inflight, putFails \in BOOLEAN :
        /\ c.op = "PutFile" /\ c.at = "PutObject"
        /\ IF putFails
           THEN /\ inflight' = inflight \ {c}
                /\ bucket' = bucket
                /\ last' = [Step(c) EXCEPT !.returned = TRUE, !.err = "PutFile/PutObject",
                                           !.resp = Resp("PutObject", FALSE, << >>)]
           ELSE /\ Cardinality(bucket \cup {c.fullPath}) <= MaxObjects
                /\ bucket' = bucket \cup {c.fullPath}
                /\ inflight' = Disturbed(inflight \ {c})
                                  \cup {[c EXCEPT !.at = "GetObjectURL", !.fullPath = Empty]}
                /\ last' = [Step(c) EXCEPT !.resp = Resp("PutObject", TRUE, << >>)]
        /\ UNCHANGED <<cfgs, origRoot, managers, pc>>

\* s3_manager.go:100-105: the URL, from the Config and the registry as they are now
PutFileEnd ==
    \E c \in inflight :
        /\ c.op = "PutFile" /\ c.at = "GetObjectURL"
        /\ inflight' = inflight \ {c}
        /\ LET r == GetObjectURL(CfgOf(c.m), Registry(c.m), c.sp, c.fileName)
           IN last' = [Step(c) EXCEPT !.returned = TRUE,
                           !.ret = IF r.err = NoError THEN r.url ELSE Empty,
                           !.err = IF r.err = NoError THEN NoError
                                   ELSE "PutFile/GetObjectURL"]
        /\ UNCHANGED <<cfgs, origRoot, managers, bucket, pc>>

\* s3_manager.go:109-118: the prefix, and ListObjectsV2 is sent
DeleteFilesBegin ==
    \E m \in Built, sp \in StorePaths, fileName \in StoreNames :
        LET fullPath == FullPath(CfgOf(m), Registry(m), sp, fileName)
            c == Waiting("DeleteFiles", "ListObjectsV2", m, NoPath, fileName, fullPath, << >>)
        IN /\ Cardinality(inflight) < MaxInFlight
           /\ c \notin inflight
           /\ inflight' = inflight \cup {c}
           /\ last' = [Step(c) EXCEPT !.at = "call", !.sp = sp, !.calls = <<Call("ListObjectsV2", fullPath, << >>, 0)>>]
           /\ UNCHANGED <<cfgs, origRoot, managers, bucket, pc>>

\* s3_manager.go:118-143: the listing arrives; DeleteObjects is sent for its keys
ListObjectsDone ==
    \E c \in inflight, listFails \in BOOLEAN :
        /\ c.op = "DeleteFiles" /\ c.at = "ListObjectsV2"
        /\ LET contents == IF listFails THEN << >> ELSE ListObjectsV2(bucket, c.fullPath)
               resp == Resp("ListObjectsV2", ~listFails, contents)
           IN IF listFails
              THEN /\ inflight' = inflight \ {c}
                   /\ last' = [Step(c) EXCEPT !.returned = TRUE, !.resp = resp,
                                              !.err = "DeleteFiles/ListObjectsV2"]
              ELSE IF NothingListed(contents)
              THEN /\ inflight' = inflight \ {c}
                   /\ last' = [Step(c) EXCEPT !.returned = TRUE, !.resp = resp]
              ELSE /\ inflight' = (inflight \ {c})
                                     \cup {[c EXCEPT !.at = "DeleteObjects", !.keys = contents]}
                   /\ last' = [Step(c) EXCEPT !.resp = resp,
                                   !.calls = <<Call("DeleteObjects", Empty, contents, 0)>>]
        /\ UNCHANGED <<cfgs, origRoot, managers, bucket, pc>>

\* s3_manager.go:143-148: the service deletes the keys, all but those it reports in
\* the output (which the code drops), or DeleteObjects fails
DeleteObjectsDone ==
    \E c \in inflight, deleteFails \in BOOLEAN :
        /\ c.op = "DeleteFiles" /\ c.at = "DeleteObjects"
        /\ \E kept \in SUBSET SeqToSet(c.keys) :
             /\ deleteFails => kept = SeqToSet(c.keys)
             /\ bucket' = bucket \ (SeqToSet(c.keys) \ kept)
             /\ inflight' = IF bucket' = bucket THEN inflight \ {c}
                            ELSE Disturbed(inflight \ {c})
             /\ last' = [Step(c) EXCEPT !.returned = TRUE,
                             !.resp = Resp("DeleteObjects", ~deleteFails,
                                           IF deleteFails THEN << >> ELSE SortKeys(kept)),
                             !.err = IF deleteFails THEN "DeleteFiles/DeleteObjects"
                                     ELSE NoError]
        /\ UNCHANGED <<cfgs, origRoot, managers, pc>>

\* Construction, catalog registration and the functions that compute paths and URLs.
Next ==
    \/ NewS3ManagerCall
    \/ AddCatalogCall
    \/ GetCatalogPatternCall
    \/ GetObjectURLCall

Spec == Init /\ [][Next]_vars

\* Path resolution on one facade.
NextPath ==
    \/ AddCatalogCall
    \/ GetCatalogPatternCall
    \/ GetObjectURLCall

SpecPath == InitBuilt /\ [][NextPath]_vars

\* The operations of one facade on the bucket.
\* The calls that return without waiting for the service
NextPresign ==
    \/ AddCatalogCall
    \/ GetObjectURLCall
    \/ GetUploadPresignedURLCall

SpecPresign == InitStore /\ [][NextPresign]_vars

\* Callers that share a facade and its Config while PutFile waits
NextShared ==
    \/ NewS3ManagerCall
    \/ AddCatalogCall
    \/ PutFileBegin
    \/ PutObjectDone
    \/ PutFileEnd

SpecShared == InitStore /\ [][NextShared]_vars

NextStore ==
    \/ AddCatalogCall
    \/ GetFilesBegin
    \/ GetFilesListed
    \/ GetFilesEnd
    \/ PutFileBegin
    \/ PutObjectDone
    \/ PutFileEnd
    \/ DeleteFilesBegin
    \/ ListObjectsDone
    \/ DeleteObjectsDone

SpecStore == InitStore /\ [][NextStore]_vars

----------------------------------------------------------------------------
(* Concurrent callers of one facade.  The struct holds no lock                *)
(* (domain.go:10-14), so a caller is inside the runtime's map assignment      *)
(* (AddCatalog) or map lookup (GetCatalogPattern) for as long as the          *)
(* scheduler leaves it there.                                                 *)

Threads == 1..MaxThreads
RacePaths ==
    [RootCatalog : {RootSvc}, CatalogType : {PathCustomCatalog, CatalogProduct},
     EntityID : {42}, CustomPath : CustomPaths]

Idle == [at |-> "idle", catalogType |-> CatalogNone, pathPattern |-> Empty, sp |-> NoPath]
Dead == [Idle EXCEPT !.at = "dead"]

Writing(t) == pc[t].at = "write"
Reading(t) == pc[t].at = "read"
Overlap ==
    \E t, u \in Threads : t # u /\ Writing(t) /\ (Reading(u) \/ Writing(u))

InitRace ==
    /\ OneFacade
    /\ \A c \in CfgIds : cfgs[c].CDN = Empty /\ cfgs[c].RootCatalog = RootSvc
    /\ pc = [t \in Threads |-> Idle]
    /\ inflight = {}

\* s3_manager.go:193, the assignment r.storagePaths[catalogType] = pathPattern begins
AddCatalogBegin(t) ==
    \E catalogType \in AddTypes, pathPattern \in NumericPatterns :
        /\ pc[t].at = "idle"
        /\ pc' = [pc EXCEPT ![t] = [Idle EXCEPT !.at = "write", !.catalogType = catalogType,
                                                !.pathPattern = pathPattern]]
        /\ UNCHANGED <<cfgs, origRoot, managers, bucket, last, inflight>>

\* s3_manager.go:193, the assignment is done and AddCatalog returns
AddCatalogEnd(t) ==
    /\ Writing(t)
    /\ managers' = [managers EXCEPT ![1].storagePaths =
                        AddCatalog(@, pc[t].catalogType, pc[t].pathPattern)]
    /\ pc' = [pc EXCEPT ![t] = Idle]
    /\ last' = [NoCall EXCEPT !.op = "AddCatalog", !.m = 1]
    /\ UNCHANGED <<cfgs, origRoot, bucket, inflight>>

\* s3_manager.go:180, the lookup r.storagePaths[storagePath.CatalogType] begins
GetCatalogPatternBegin(t) ==
    \E sp \in RacePaths :
        /\ pc[t].at = "idle"
        /\ pc' = [pc EXCEPT ![t] = [Idle EXCEPT !.at = "read", !.sp = sp]]
        /\ UNCHANGED <<cfgs, origRoot, managers, bucket, last, inflight>>

\* s3_manager.go:180-185, the lookup is done and GetCatalogPattern returns.  A lookup
\* that overlaps an assignment is a data race: it sees the map before or after it.
GetCatalogPatternEnd(t) ==
    /\ Reading(t)
    /\ \E reg \in {Registry(1)} \cup
                  {AddCatalog(Registry(1), pc[u].catalogType, pc[u].pathPattern) :
                       u \in {w \in Threads : Writing(w)}} :
           last' = [NoCall EXCEPT !.op = "GetCatalogPattern", !.m = 1, !.sp = pc[t].sp,
                                  !.ret = GetCatalogPattern(reg, pc[t].sp)]
    /\ pc' = [pc EXCEPT ![t] = Idle]
    /\ UNCHANGED <<cfgs, origRoot, managers, bucket, inflight>>

\* The runtime finds the map being written by another goroutine and ends the
\* process ("fatal error: concurrent map read and map write", "concurrent map writes").
FatalMapRace ==
    /\ Overlap
    /\ pc' = [t \in Threads |-> Dead]
    /\ UNCHANGED <<cfgs, origRoot, managers, bucket, last, inflight>>

NextRace ==
    \/ \E t \in Threads : AddCatalogBegin(t)
    \/ \E t \in Threads : AddCatalogEnd(t)
    \/ \E t \in Threads : GetCatalogPatternBegin(t)
    \/ \E t \in Threads : GetCatalogPatternEnd(t)
    \/ FatalMapRace

SpecRace == InitRace /\ [][NextRace]_vars

----------------------------------------------------------------------------
(* Properties *)

IsCall(op) == last.op = op
LastCfg == CfgOf(last.m)
LastRegistry == Registry(last.m)

\* C1: for the built-in custom catalog type, registered with the identity pattern,
\* GetCatalogPattern returns RootCatalog followed by CustomPath verbatim, whatever
\* the EntityID.
C1_CustomPathVerbatim ==
    (/\ IsCall("GetCatalogPattern")
     /\ last.sp.CatalogType = PathCustomCatalog
     /\ PathCustomCatalog \in DOMAIN LastRegistry
     /\ LastRegistry[PathCustomCatalog] = PatternIdentity)
    => last.ret = last.sp.RootCatalog \o last.sp.CustomPath

\* C2: for a catalog type registered through AddCatalog with a pattern of one numeric
\* slot, GetCatalogPattern returns the root prefix unchanged, followed by the pattern
\* formatted with the entity id, also for a root prefix that holds a "%".
C2_RootCopiedPatternFormatted ==
    (/\ IsCall("GetCatalogPattern")
     /\ last.sp.CatalogType \in AddTypes
     /\ last.sp.CatalogType \in DOMAIN LastRegistry
     /\ LastRegistry[last.sp.CatalogType] \in NumericPatterns)
    => last.ret = last.sp.RootCatalog
                    \o Sprintf(LastRegistry[last.sp.CatalogType], last.sp.EntityID)

\* The worked example: endpoint https://s3.example.com, bucket mybucket, root /svc/,
\* catalog product -> products/%d/, entity 42, file cert.pdf.
ExampleCall ==
    /\ IsCall("GetObjectURL")
    /\ LastCfg.Endpoint = EndpointExample
    /\ LastCfg.Name = BucketName
    /\ LastCfg.RootCatalog = RootSvc
    /\ LastCfg.CDN \in {Empty, CDNExample}
    /\ CatalogProduct \in DOMAIN LastRegistry
    /\ LastRegistry[CatalogProduct] = PatternProduct
    /\ last.sp.CatalogType = CatalogProduct
    /\ last.sp.EntityID = 42
    /\ last.fileName = NameCert

UrlOneSlashRaw ==
    <<"h","t","t","p","s",":","/","/","s","3",".","e","x","a",
    "m","p","l","e",".","c","o","m","/","m","y","b","u","c",
    "k","e","t","/","s","v","c","/","p","r","o","d","u","c",
    "t","s","/","4","2","/","c","e","r","t",".","p","d","f">>
UrlOneSlashCDN ==
    <<"h","t","t","p","s",":","/","/","c","d","n",".","e","x",
    "a","m","p","l","e",".","c","o","m","/","s","v","c","/",
    "p","r","o","d","u","c","t","s","/","4","2","/","c","e",
    "r","t",".","p","d","f">>
UrlTwoSlashesRaw ==
    <<"h","t","t","p","s",":","/","/","s","3",".","e","x","a",
    "m","p","l","e",".","c","o","m","/","m","y","b","u","c",
    "k","e","t","/","/","s","v","c","/","p","r","o","d","u",
    "c","t","s","/","4","2","/","c","e","r","t",".","p","d",
    "f">>
UrlTwoSlashesCDN ==
    <<"h","t","t","p","s",":","/","/","c","d","n",".","e","x",
    "a","m","p","l","e",".","c","o","m","/","/","s","v","c",
    "/","p","r","o","d","u","c","t","s","/","4","2","/","c",
    "e","r","t",".","p","d","f">>

\* C3 as stated: in the worked example GetObjectURL returns
\* https://s3.example.com/mybucket/svc/products/42/cert.pdf without a CDN and
\* https://cdn.example.com/svc/products/42/cert.pdf with CDN https://cdn.example.com.
C3_ExampleOneSeparator ==
    ExampleCall =>
        /\ last.err = NoError
        /\ last.ret = IF LastCfg.CDN = Empty THEN UrlOneSlashRaw ELSE UrlOneSlashCDN

\* C3 as amended: in the worked example GetObjectURL returns
\* https://s3.example.com/mybucket//svc/products/42/cert.pdf without a CDN and
\* https://cdn.example.com//svc/products/42/cert.pdf with the CDN: the separator "/"
\* is followed by the key /svc/products/42/cert.pdf with its own leading "/".
C3_ExampleKeyKeepsLeadingSlash ==
    ExampleCall =>
        /\ last.err = NoError
        /\ last.ret = IF LastCfg.CDN = Empty THEN UrlTwoSlashesRaw ELSE UrlTwoSlashesCDN

C3_ExampleReached == ExampleCall /\ LastCfg.CDN = CDNExample /\ last.ret = UrlTwoSlashesCDN

\* C4: after any sequence of test-mode NewS3Manager calls, every facade built so far
\* uses its caller's original RootCatalog with exactly one "test/" appended.
C4_TestSegmentOnce ==
    (\A i \in DOMAIN managers : managers[i].test)
    => \A i \in Built :
           CfgOf(i).RootCatalog = origRoot[managers[i].cfg] \o TestSegment

InvalidFile(data) == data.nil \/ data.File = Nil \/ data.Name = Empty

\* C5: PutFile with a nil BucketFile, a nil File stream or an empty Name returns an
\* error and an empty URL, calls the storage client not at all and leaves the bucket
\* as it was.
C5_PutFileRejectsInvalid ==
    [][(last'.op = "PutFile" /\ last'.at = "call" /\ InvalidFile(last'.data))
         => (/\ last'.returned
             /\ last'.err # NoError
             /\ last'.ret = Empty
             /\ last'.calls = << >>
             /\ last'.resp = NoResp
             /\ bucket' = bucket)]_vars

C5_InvalidRejected ==
    /\ IsCall("PutFile")
    /\ ~last.data.nil /\ last.data.File # Nil /\ last.data.Name = Empty
    /\ last.returned
    /\ last.err = "PutFile: invalid file data"
    /\ bucket # {}

ListedNothing(c) ==
    /\ c.op = "DeleteFiles"
    /\ c.resp.api = "ListObjectsV2"
    /\ c.resp.ok
    /\ c.resp.keys = << >>

\* C6: DeleteFiles whose listing under the computed prefix returns no object returns
\* nil, never calls DeleteObjects and leaves the bucket as it was.
C6_DeleteNothingSucceeds ==
    [][ListedNothing(last')
         => (/\ last'.returned
             /\ last'.err = NoError
             /\ last'.calls = << >>
             /\ bucket' = bucket)]_vars

C6_NothingListed ==
    ListedNothing(last) /\ last.returned /\ last.err = NoError /\ bucket # {}

\* C7: GetUploadPresignedURL with a file name presigns with the configured default
\* expiry when expireTime is 0 and with expireTime itself when it is positive; with
\* an empty file name it returns an error and presigns nothing.
C7_PresignExpiry ==
    IsCall("GetUploadPresignedURL") =>
        IF last.fileName = Empty
        THEN last.err # NoError /\ last.calls = << >>
        ELSE /\ Len(last.calls) = 1
             /\ last.calls[1].api = "PresignPutObject"
             /\ last.expireTime = 0 =>
                    last.calls[1].expires = LastCfg.PresignedURLExpireTime
             /\ last.expireTime > 0 => last.calls[1].expires = last.expireTime

C7_DefaultExpiryUsed ==
    /\ IsCall("GetUploadPresignedURL")
    /\ last.fileName # Empty
    /\ last.expireTime = 0
    /\ last.err = NoError
    /\ last.calls[1].expires = LastCfg.PresignedURLExpireTime

\* C8: every key and key prefix that PutFile, DeleteFiles and GetUploadPresignedURL
\* send to the storage client starts with the facade's root catalog, also for an
\* empty or unregistered CatalogType and for DeleteFiles with an empty fileName.
C8_KeysUnderRoot ==
    (last.op \in {"PutFile", "DeleteFiles", "GetUploadPresignedURL"}) =>
        \A i \in DOMAIN last.calls :
            /\ last.calls[i].api # "DeleteObjects" =>
                   StartsWith(last.calls[i].key, LastCfg.RootCatalog)
            /\ \A j \in DOMAIN last.calls[i].keys :
                   StartsWith(last.calls[i].keys[j], LastCfg.RootCatalog)

\* C9: when DeleteFiles returns nil and no other call has written the bucket
\* meanwhile, no object whose key starts with the computed prefix is left in the
\* bucket, however many objects were stored under it.
C9_PrefixEmptied ==
    (IsCall("DeleteFiles") /\ last.returned /\ last.err = NoError /\ ~last.disturbed) =>
        \A k \in bucket : ~StartsWith(k, last.fullPath)

\* C10: on a facade shared by concurrent callers, no write of the storagePaths map by
\* AddCatalog overlaps a read of it by GetCatalogPattern or another write.
C10_RegistrySerialized == ~Overlap

====
